---- MODULE Spec2Model ----
(***************************************************************************)
(* A model of lpar/bloat (src/main.go): the Bloat accumulator (DirMap,     *)
(* Dirs, Abs), its operations AddBloat, AddFile, Sort, Scan, Report and    *)
(* the driver main.                                                        *)
(*                                                                         *)
(* A path is a sequence of one-character strings, so that filepath.Dir,    *)
(* filepath.Clean, filepath.Rel and filepath.Abs are computed on the text  *)
(* of the path, as the Go library computes them on a Unix build.           *)
(***************************************************************************)
EXTENDS Integers, Sequences, FiniteSets, TLC

\* ------------------------------------------------------------------ bounds
\* Longest path of the exhaustively enumerated AddFile/AddBloat inputs.
MaxPathLen == 4
\* Largest byte count passed to AddBloat/AddFile by the API-level callers.
MaxSize == 2
\* Number of calls a client makes in one behaviour.
MaxCalls == 3
\* Largest size of a regular file of the scanned tree.
MaxFileSize == 2
\* Largest size the file system reports for a directory entry.
MaxDirSize == 1
\* Largest number of (path, size) pairs in the multiset of SpecOrder.
MaxFiles == 3

\* ------------------------------------------------------------------ paths
Sep == "/"
Alphabet == {"/", ".", "a", "b"}

Slash == <<"/">>
Dot == <<".">>
DotDot == <<".", ".">>

\* The components of p between separators (empty components included).
RECURSIVE SplitFrom(_, _, _)
SplitFrom(p, i, cur) ==
    IF i > Len(p) THEN <<cur>>
    ELSE IF p[i] = Sep THEN <<cur>> \o SplitFrom(p, i + 1, <<>>)
         ELSE SplitFrom(p, i + 1, Append(cur, p[i]))

Split(p) == SplitFrom(p, 1, <<>>)

\* components joined by the separator
RECURSIVE JoinComps(_)
JoinComps(cs) ==
    IF cs = <<>> THEN <<>>
    ELSE IF Len(cs) = 1 THEN cs[1]
         ELSE cs[1] \o <<Sep>> \o JoinComps(Tail(cs))

IsAbs(p) == Len(p) > 0 /\ p[1] = Sep

\* filepath.Clean's pass over the components: "" and "." are dropped, ".."
\* removes the preceding component when there is one to remove, is dropped
\* at the root, and is kept at the front of a relative path.
RECURSIVE CleanComps(_, _, _)
CleanComps(cs, out, rooted) ==
    IF cs = <<>> THEN out
    ELSE LET c == Head(cs)
             rest == Tail(cs)
         IN  IF c = <<>> \/ c = Dot THEN CleanComps(rest, out, rooted)
             ELSE IF c = DotDot
                  THEN IF out # <<>> /\ out[Len(out)] # DotDot
                       THEN CleanComps(rest, SubSeq(out, 1, Len(out) - 1), rooted)
                       ELSE IF rooted THEN CleanComps(rest, out, rooted)
                            ELSE CleanComps(rest, Append(out, c), rooted)
                  ELSE CleanComps(rest, Append(out, c), rooted)

\* filepath.Clean: the shortest path name equivalent to p.
Clean(p) ==
    IF p = <<>> THEN Dot
    ELSE LET out == CleanComps(Split(p), <<>>, IsAbs(p))
         IN  IF IsAbs(p) THEN Slash \o JoinComps(out)
             ELSE IF out = <<>> THEN Dot ELSE JoinComps(out)

\* index of the last separator of p, 0 when there is none
RECURSIVE LastSep(_, _)
LastSep(p, i) == IF i = 0 THEN 0 ELSE IF p[i] = Sep THEN i ELSE LastSep(p, i - 1)

\* A parent computation that forgets to clean what precedes the last element,
\* so that a trailing separator survives one more round.
DirNoClean(p) ==
    LET i == LastSep(p, Len(p))
    IN  IF i = 0 THEN Dot
        ELSE IF i = Len(p) THEN Clean(p) ELSE SubSeq(p, 1, i)

\* filepath.Dir: all but the last element of p, cleaned.
Dir(p) == Clean(SubSeq(p, 1, LastSep(p, Len(p))))

\* filepath.Join of two elements
Join(a, b) ==
    IF a = <<>> THEN (IF b = <<>> THEN <<>> ELSE Clean(b))
    ELSE IF b = <<>> THEN Clean(a) ELSE Clean(a \o <<Sep>> \o b)

\* the non-empty components of a clean path
Comps(p) == SelectSeq(Split(p), LAMBDA c : c # <<>>)

RECURSIVE CommonLen(_, _)
CommonLen(b, t) ==
    IF b = <<>> \/ t = <<>> THEN 0
    ELSE IF Head(b) = Head(t) THEN 1 + CommonLen(Tail(b), Tail(t)) ELSE 0

\* Rel that keeps only the last element of the target.
RelBase(basepath, targpath) ==
    LET t == Comps(Clean(targpath))
    IN  IF Clean(targpath) = Clean(basepath) \/ t = <<>> THEN Dot ELSE t[Len(t)]

\* filepath.Rel for two absolute paths (it cannot fail on them): the common
\* leading elements are dropped, each remaining element of the base becomes
\* "..", and the remaining elements of the target follow.
Rel(basepath, targpath) ==
    LET base == Clean(basepath)
        targ == Clean(targpath)
        b == Comps(base)
        t == Comps(targ)
        n == CommonLen(b, t)
        ups == [i \in 1..(Len(b) - n) |-> DotDot]
    IN  IF targ = base THEN Dot
        ELSE JoinComps(ups \o SubSeq(t, n + 1, Len(t)))

\* filepath.Abs of an absolute path is its Clean; the scanned roots are
\* absolute, so the working directory is never consulted.
AbsPath(p) == Clean(p)


\* ------------------------------------------------------------ accumulator
VARIABLES
    DirMap,   \* Bloat.DirMap: directory key -> DirInfo [Path, Bytes]
    Dirs,     \* Bloat.Dirs: sequence of pointers to the DirInfo of DirMap,
              \* each pointer written as the key its DirInfo is stored under
    Abs,      \* Bloat.Abs
    last,     \* history: the last call made on the Bloat and the state before it
    calls,    \* history: number of calls a client has made
    other,    \* DirMap of a second Bloat, for the runs that compare two
    pc,       \* position of main: "scan", "sort", "report", "done"
    args,     \* os.Args[1:], the roots
    argi,     \* index of the root being scanned
    todo,     \* entries filepath.Walk has still to hand to the callback
    fsize,    \* the file system: size of each regular file
    dsize,    \* the file system: size reported for a directory entry
    failed,   \* history: indexes of the roots whose walk returned an error
    visits,   \* history: <<root index, path>> of each entry handed to AddFile
    srcs,     \* history: directory key -> indexes of the roots whose regular
              \* files contributed to it
    out,      \* standard output of Report: <<Bytes, Path>> per line
    files,    \* the (path, size) pairs a client adds to two accumulators
    idxA,     \* number of pairs added to DirMap, in the order of files
    doneB,    \* indexes of the pairs added to other, in an order of its own
    swapped   \* history: other received some pair out of the order of files

\* NewBloat: an empty map, no Dirs
EmptyMap == [k \in {} |-> [Path |-> k, Bytes |-> 0]]

\* AddBloat with the update written as an assignment instead of an addition.
AddBloatSet(m, dir, bytes) ==
    IF dir \notin DOMAIN m
    THEN m @@ (dir :> [Path |-> dir, Bytes |-> bytes])
    ELSE [m EXCEPT ![dir].Bytes = bytes]

\* Bloat.AddBloat. Bytes is an int64; the totals of the runs checked here
\* stay far below 2^63, so the addition is written without its wrap-around.
AddBloat(m, dir, bytes) ==
    IF dir \notin DOMAIN m
    THEN m @@ (dir :> [Path |-> dir, Bytes |-> bytes])
    ELSE [m EXCEPT ![dir].Bytes = @ + bytes]

\* The loop of AddFile with the exit test moved after the AddBloat call.
RECURSIVE AddFileLoopLate(_, _, _, _, _)
AddFileLoopLate(m, dir, ldir, bytes, n) ==
    LET d == Dir(dir)
    IN  IF ldir = d THEN [map |-> AddBloat(m, d, bytes), iters |-> n + 1]
        ELSE AddFileLoopLate(AddBloat(m, d, bytes), d, d, bytes, n + 1)

\* The loop of Bloat.AddFile: n counts the iterations that did not exit, each
\* of which made one AddBloat call. The only exit is ldir = Dir(dir).
RECURSIVE AddFileLoop(_, _, _, _, _)
AddFileLoop(m, dir, ldir, bytes, n) ==
    LET d == Dir(dir)
    IN  IF ldir = d THEN [map |-> m, iters |-> n]
        ELSE AddFileLoop(AddBloat(m, d, bytes), d, d, bytes, n + 1)

\* Bloat.AddFile, with the number of iterations it took
AddFileRun(m, path, bytes) == AddFileLoop(m, path, path, bytes, 0)

\* Bloat.AddFile
AddFile(m, path, bytes) == AddFileRun(m, path, bytes).map

\* Sort's append target that keeps the earlier contents of Dirs.
KeepDirs(old) == old

\* b.Dirs = make([]*DirInfo, 0, len(b.DirMap))
FreshDirs(old) == <<>>

\* The comparison with the order reversed.
LessAscending(m, x, y) == m[x].Bytes < m[y].Bytes

\* the less function handed to sort.Slice
Less(m, x, y) == m[x].Bytes > m[y].Bytes

\* The keys of a map in one order; the range loop over a Go map may produce
\* any order, and SortSlice below returns the same set for each of them.
RECURSIVE RangeOrder(_)
RangeOrder(S) ==
    IF S = {} THEN <<>>
    ELSE LET k == CHOOSE x \in S : TRUE IN <<k>> \o RangeOrder(S \ {k})

\* sort.Slice (not stable): every arrangement of the elements s[i], i \in I,
\* in which no element is preceded by one that Less puts after it.
RECURSIVE SortSlice(_, _, _)
SortSlice(m, s, I) ==
    IF I = {} THEN {<<>>}
    ELSE UNION { { <<s[i]>> \o t : t \in SortSlice(m, s, I \ {i}) } :
                 i \in { j \in I : \A k \in I : ~Less(m, s[k], s[j]) } }

\* Bloat.Sort: the possible values of Dirs after it
SortResults(m, old) ==
    LET s == FreshDirs(old) \o RangeOrder(DOMAIN m)
    IN  SortSlice(m, s, 1..Len(s))

\* Bloat.Report: one line per element of Dirs
ReportLines(m, ds) == [i \in 1..Len(ds) |-> <<m[ds[i]].Bytes, m[ds[i]].Path>>]

\* ------------------------------------------------- the calls of a client
apiVars == <<DirMap, Dirs, Abs, last, calls>>
progVars == <<pc, args, argi, todo, fsize, dsize, failed, visits, srcs, out>>
orderVars == <<files, idxA, doneB, swapped>>
vars == <<apiVars, other, progVars, orderVars>>

NoCall == [op |-> "none", path |-> <<>>, bytes |-> 0, pre |-> EmptyMap,
           preDirs |-> <<>>, iters |-> 0]

\* no client calls are being recorded
NoApi == last = NoCall /\ calls = 0

\* main is not running
NoProg ==
    /\ pc = "none" /\ args = <<>> /\ argi = 0 /\ todo = <<>>
    /\ fsize = <<>> /\ dsize = 0 /\ failed = {} /\ visits = <<>>
    /\ srcs = {} /\ out = <<>>

\* no second accumulator, no list of pairs
NoOrder == files = <<>> /\ idxA = 0 /\ doneB = {} /\ swapped = FALSE

\* the paths a client passes in the runs of several calls: both fixed points,
\* a file at the relative root, a nested relative and a nested absolute file,
\* and a path with a trailing separator
ApiPaths ==
    { <<".">>, <<"/">>, <<"a">>, <<"a", "/", "b", "/", "a">>,
      <<"/", "a", "/", "b">>, <<"a", "/">> }

\* the directory keys a client passes to AddBloat directly
ApiDirs == { <<".">>, <<"a">> }

RECURSIVE SeqsUpTo(_)
SeqsUpTo(n) ==
    IF n = 0 THEN {<<>>}
    ELSE LET S == SeqsUpTo(n - 1)
         IN  S \cup { Append(s, c) : s \in { t \in S : Len(t) = n - 1 }, c \in Alphabet }

\* every path of at most MaxPathLen characters
InputPaths == SeqsUpTo(MaxPathLen)

Sizes == 0..MaxSize

InitApi ==
    /\ DirMap = EmptyMap
    /\ Dirs = <<>>
    /\ Abs \in BOOLEAN
    /\ last = NoCall
    /\ calls = 0
    /\ other = EmptyMap
    /\ NoProg
    /\ NoOrder

AddBloatCall(dir, bytes) ==
    /\ calls < MaxCalls
    /\ DirMap' = AddBloat(DirMap, dir, bytes)
    /\ last' = [op |-> "AddBloat", path |-> dir, bytes |-> bytes, pre |-> DirMap,
                preDirs |-> Dirs, iters |-> 0]
    /\ calls' = calls + 1
    /\ UNCHANGED <<Dirs, Abs, other, progVars, orderVars>>

AddFileCall(path, bytes) ==
    /\ calls < MaxCalls
    /\ LET r == AddFileRun(DirMap, path, bytes)
       IN  /\ DirMap' = r.map
           /\ last' = [op |-> "AddFile", path |-> path, bytes |-> bytes,
                       pre |-> DirMap, preDirs |-> Dirs, iters |-> r.iters]
    /\ calls' = calls + 1
    /\ UNCHANGED <<Dirs, Abs, other, progVars, orderVars>>

SortCall ==
    /\ calls < MaxCalls
    /\ Dirs' \in SortResults(DirMap, Dirs)
    /\ last' = [op |-> "Sort", path |-> <<>>, bytes |-> 0, pre |-> DirMap,
                preDirs |-> Dirs, iters |-> 0]
    /\ calls' = calls + 1
    /\ UNCHANGED <<DirMap, Abs, other, progVars, orderVars>>

NextApi ==
    \/ \E d \in ApiDirs, n \in Sizes : AddBloatCall(d, n)
    \/ \E p \in ApiPaths, n \in 1..MaxSize : AddFileCall(p, n)
    \/ SortCall

\* A client that makes up to MaxCalls calls of AddBloat, AddFile and Sort.
Spec == InitApi /\ [][NextApi]_vars

\* ---------------------------------------- one AddFile call on any path
\* the accumulator states one AddFile call of a client leads to
StartMaps ==
    {EmptyMap} \cup { AddFile(EmptyMap, q, n) : q \in ApiPaths, n \in 1..MaxSize }

InitFile ==
    /\ DirMap \in StartMaps
    /\ Dirs = <<>>
    /\ Abs = FALSE
    /\ last = NoCall
    /\ calls = MaxCalls - 1
    /\ other = EmptyMap
    /\ NoProg
    /\ NoOrder

NextFile == \E p \in InputPaths, n \in Sizes : AddFileCall(p, n)

\* AddFile applied once to every path of at most MaxPathLen characters.
SpecFile == InitFile /\ [][NextFile]_vars

\* ------------------------------------------- two orders of the same pairs
OrderPaths == { <<"a">>, <<"a", "/", "b", "/", "a">>, <<"/", "a", "/", "b">> }

OrderPairs == { [path |-> q, bytes |-> n] : q \in OrderPaths, n \in 1..MaxSize }

RECURSIVE PairSeqs(_)
PairSeqs(n) ==
    IF n = 0 THEN {<<>>}
    ELSE LET S == PairSeqs(n - 1)
         IN  S \cup { Append(s, c) : s \in { t \in S : Len(t) = n - 1 }, c \in OrderPairs }

\* the accumulator states the two runs start from
OrderStarts == { EmptyMap, AddBloat(EmptyMap, <<".">>, 1) }

InitOrder ==
    /\ files \in PairSeqs(MaxFiles)
    /\ DirMap \in OrderStarts
    /\ other = DirMap
    /\ idxA = 0
    /\ doneB = {}
    /\ swapped = FALSE
    /\ Dirs = <<>>
    /\ Abs = FALSE
    /\ NoApi
    /\ NoProg

\* the first accumulator receives the next pair of the list
AddNextA ==
    /\ idxA < Len(files)
    /\ DirMap' = AddFile(DirMap, files[idxA + 1].path, files[idxA + 1].bytes)
    /\ idxA' = idxA + 1
    /\ UNCHANGED <<Dirs, Abs, last, calls, other, progVars, files, doneB, swapped>>

\* the second accumulator, once the first is done, receives any remaining pair
AddAnyB(i) ==
    /\ idxA = Len(files)
    /\ i \in (1..Len(files)) \ doneB
    /\ other' = AddFile(other, files[i].path, files[i].bytes)
    /\ doneB' = doneB \cup {i}
    /\ swapped' = (swapped \/ \E j \in (1..Len(files)) \ doneB : j < i)
    /\ UNCHANGED <<apiVars, progVars, files, idxA>>

NextOrder ==
    \/ AddNextA
    \/ \E i \in 1..MaxFiles : AddAnyB(i)

\* The same pairs added by AddFile to two accumulators in two orders.
SpecOrder == InitOrder /\ [][NextOrder]_vars

\* ------------------------------------------------------- the file system
\* The scanned tree: /a/b/f, /a/c/g and /x/f are regular files.
TreeDirs ==
    { <<"/">>, <<"/", "a">>, <<"/", "a", "/", "b">>, <<"/", "a", "/", "c">>,
      <<"/", "x">> }

TreeFiles ==
    { <<"/", "a", "/", "b", "/", "f">>, <<"/", "a", "/", "c", "/", "g">>,
      <<"/", "x", "/", "f">> }

\* f.IsDir() of an entry
IsDir(p) == p \in TreeDirs

\* readDirNames: the names in a directory, sorted
Names(p) ==
    CASE p = <<"/">> -> << <<"a">>, <<"x">> >>
      [] p = <<"/", "a">> -> << <<"b">>, <<"c">> >>
      [] p = <<"/", "a", "/", "b">> -> << <<"f">> >>
      [] p = <<"/", "a", "/", "c">> -> << <<"g">> >>
      [] p = <<"/", "x">> -> << <<"f">> >>
      [] OTHER -> <<>>

\* filepath.Walk: the entries in the order the callback receives them, a
\* directory before what it holds, the names of a directory in sorted order
RECURSIVE WalkList(_)
WalkList(path) ==
    LET RECURSIVE Below(_)
        Below(ns) ==
            IF ns = <<>> THEN <<>>
            ELSE WalkList(Join(path, Head(ns))) \o Below(Tail(ns))
    IN  <<path>> \o (IF IsDir(path) THEN Below(Names(path)) ELSE <<>>)

\* f.Size() of an entry
SizeOf(p) == IF IsDir(p) THEN dsize ELSE fsize[p]

\* ------------------------------------------------------------------ main
\* the root arguments main is started with
Roots == { <<"/">>, <<"/", "a">>, <<"/", "a", "/", "b">>, <<"/", "x">>,
           <<"/", "x", "/", "f">> }

ArgLists == { <<r>> : r \in Roots } \cup { <<r, q>> : r \in Roots, q \in Roots }

\* The key computed without looking at the mode.
EntryKeyAlwaysRel(abs, basedir, path) == Rel(basedir, path)

\* the key Scan's callback computes for an entry; the roots are absolute, so
\* neither filepath.Abs nor filepath.Rel returns an error and the callback
\* never panics
EntryKey(abs, basedir, path) ==
    IF abs THEN AbsPath(path) ELSE Rel(basedir, path)

\* Scan's callback for an entry the walk reports without error
ScanEntry(m, abs, basedir, path, size) ==
    AddFile(m, EntryKey(abs, basedir, path), size)

InitFs ==
    /\ fsize \in [TreeFiles -> 1..MaxFileSize]
    /\ dsize \in 0..MaxDirSize

InitMain ==
    /\ InitFs
    /\ args \in ArgLists
    /\ Abs = (Len(args) > 1)
    /\ DirMap = EmptyMap
    /\ Dirs = <<>>
    /\ pc = "scan"
    /\ argi = 1
    /\ todo = WalkList(args[1])
    /\ failed = {}
    /\ visits = <<>>
    /\ srcs = {}
    /\ out = <<>>
    /\ other = EmptyMap
    /\ NoApi
    /\ NoOrder

\* Scan returns: main's loop goes on to the next argument, or to Sort
NextRoot ==
    IF argi < Len(args)
    THEN /\ argi' = argi + 1
         /\ todo' = WalkList(args[argi + 1])
         /\ pc' = "scan"
    ELSE /\ argi' = argi
         /\ todo' = <<>>
         /\ pc' = "sort"

\* the callback is handed the next entry with err = nil
VisitEntry ==
    /\ pc = "scan"
    /\ todo # <<>>
    /\ LET path == Head(todo)
           key == EntryKey(Abs, args[argi], path)
       IN  /\ DirMap' = ScanEntry(DirMap, Abs, args[argi], path, SizeOf(path))
           /\ visits' = Append(visits, <<argi, path>>)
           /\ srcs' = IF IsDir(path) THEN srcs
                      ELSE srcs \cup { <<k, argi>> : k \in DOMAIN AddFile(EmptyMap, key, 1) }
    /\ todo' = Tail(todo)
    /\ UNCHANGED <<Dirs, Abs, last, calls, other, pc, args, argi, fsize, dsize,
                   failed, out, orderVars>>

\* A Scan that ends the process when the walk fails.
ScanFatal ==
    /\ argi' = argi
    /\ todo' = <<>>
    /\ pc' = "done"

\* werr # nil: Scan writes "error scanning" and returns like any other Scan
ScanFailed == NextRoot

\* the callback is handed the next entry with err # nil and returns it: Walk
\* stops and returns that error to Scan
WalkError ==
    /\ pc = "scan"
    /\ todo # <<>>
    /\ failed' = failed \cup {argi}
    /\ ScanFailed
    /\ UNCHANGED <<apiVars, other, args, fsize, dsize, visits, srcs, out, orderVars>>

\* Walk has handed over every entry and returns nil
ScanReturn ==
    /\ pc = "scan"
    /\ todo = <<>>
    /\ NextRoot
    /\ UNCHANGED <<apiVars, other, args, fsize, dsize, failed, visits, srcs, out,
                   orderVars>>

\* bloat.Sort()
SortStep ==
    /\ pc = "sort"
    /\ Dirs' \in SortResults(DirMap, Dirs)
    /\ pc' = "report"
    /\ UNCHANGED <<DirMap, Abs, last, calls, other, args, argi, todo, fsize, dsize,
                   failed, visits, srcs, out, orderVars>>

\* bloat.Report()
ReportStep ==
    /\ pc = "report"
    /\ out' = ReportLines(DirMap, Dirs)
    /\ pc' = "done"
    /\ UNCHANGED <<apiVars, other, args, argi, todo, fsize, dsize, failed, visits,
                   srcs, orderVars>>

NextMain ==
    \/ VisitEntry
    \/ WalkError
    \/ ScanReturn
    \/ SortStep
    \/ ReportStep

\* main with one or two root arguments.
SpecMain == InitMain /\ [][NextMain]_vars

\* ------------------------------ one root scanned in both modes, side by side
InitModes ==
    /\ InitFs
    /\ args \in { <<r>> : r \in Roots }
    /\ Abs = FALSE
    /\ DirMap = EmptyMap
    /\ other = EmptyMap
    /\ Dirs = <<>>
    /\ pc = "scan"
    /\ argi = 1
    /\ todo = WalkList(args[1])
    /\ failed = {}
    /\ visits = <<>>
    /\ srcs = {}
    /\ out = <<>>
    /\ NoApi
    /\ NoOrder

\* the same entry reaches the callback of the relative-mode Bloat (DirMap)
\* and of the absolute-mode Bloat (other)
VisitBoth ==
    /\ pc = "scan"
    /\ todo # <<>>
    /\ LET path == Head(todo)
       IN  /\ DirMap' = ScanEntry(DirMap, FALSE, args[1], path, SizeOf(path))
           /\ other' = ScanEntry(other, TRUE, args[1], path, SizeOf(path))
           /\ visits' = Append(visits, <<argi, path>>)
    /\ todo' = Tail(todo)
    /\ UNCHANGED <<Dirs, Abs, last, calls, pc, args, argi, fsize, dsize, failed,
                   srcs, out, orderVars>>

\* the walk fails at the same entry in both scans
ErrorBoth ==
    /\ pc = "scan"
    /\ todo # <<>>
    /\ failed' = {1}
    /\ todo' = <<>>
    /\ pc' = "done"
    /\ UNCHANGED <<apiVars, other, args, argi, fsize, dsize, visits, srcs, out,
                   orderVars>>

\* both scans return
ReturnBoth ==
    /\ pc = "scan"
    /\ todo = <<>>
    /\ pc' = "done"
    /\ UNCHANGED <<apiVars, other, args, argi, todo, fsize, dsize, failed, visits,
                   srcs, out, orderVars>>

NextModes ==
    \/ VisitBoth
    \/ ErrorBoth
    \/ ReturnBoth

\* NewBloat(false).Scan(r) and NewBloat(true).Scan(r) on the same tree.
SpecModes == InitModes /\ [][NextModes]_vars

\* ------------------------------------------------------------- properties
\* the total recorded for key k in map m, 0 when there is no record
BytesOf(m, k) == IF k \in DOMAIN m THEN m[k].Bytes ELSE 0

\* Dir(p), Dir(Dir(p)), ... up to and including the fixed point
RECURSIVE DirChain(_)
DirChain(p) == LET d == Dir(p) IN IF d = p THEN {d} ELSE {d} \cup DirChain(d)

\* p is a fixed point of Dir
IsFixedPoint(p) == Dir(p) = p

\* number of (non-empty) components of a path
NComps(p) == Len(Comps(p))

\* DirMap is last.pre with S added to the total of every key of anc (a missing
\* record counting as 0), and nothing else
AddedExactly(anc, S) ==
    /\ DOMAIN DirMap = DOMAIN last.pre \cup anc
    /\ \A k \in DOMAIN DirMap :
          /\ DirMap[k].Path = k
          /\ DirMap[k].Bytes = BytesOf(last.pre, k) + (IF k \in anc THEN S ELSE 0)

\* C1 as stated: after AddFile(F, S) every directory of the chain Dir(F),
\* Dir(Dir(F)), ..., fixed point included, has gained exactly S and nothing
\* else has changed.
C1_EveryChainDirGainsS ==
    last.op = "AddFile" => AddedExactly(DirChain(last.path), last.bytes)

\* C1 as amended: after AddFile(F, S) with F not a fixed point of Dir, every
\* directory of the chain Dir(F), Dir(Dir(F)), ..., fixed point included, has
\* gained exactly S (a missing record is created with S); with F a fixed point
\* ("." or "/") no record gains anything; in both cases every other record is
\* unchanged and no other key is created.
C1_AncestorsGainS ==
    last.op = "AddFile" =>
        AddedExactly(IF IsFixedPoint(last.path) THEN {} ELSE DirChain(last.path),
                     last.bytes)

\* an AddFile call of S > 0 that raised an existing record, created a missing
\* one and left a third record alone
C1_Witness ==
    /\ last.op = "AddFile" /\ last.bytes > 0
    /\ \E k \in DirChain(last.path) : k \in DOMAIN last.pre /\ last.pre[k].Bytes > 0
    /\ \E k \in DirChain(last.path) : k \notin DOMAIN last.pre
    /\ \E k \in DOMAIN last.pre : k \notin DirChain(last.path)

\* C2: right after Sort, the totals of Dirs never increase from one position
\* to the next.
C2_SortedDescending ==
    last.op = "Sort" =>
        \A i \in 1..(Len(Dirs) - 1) :
            DirMap[Dirs[i]].Bytes >= DirMap[Dirs[i + 1]].Bytes

\* a Sort of at least three records, two of them tied and one larger
C2_Witness ==
    /\ last.op = "Sort" /\ Len(Dirs) >= 3
    /\ \E i \in 1..(Len(Dirs) - 1) : DirMap[Dirs[i]].Bytes > DirMap[Dirs[i + 1]].Bytes
    /\ \E i \in 1..(Len(Dirs) - 1) : DirMap[Dirs[i]].Bytes = DirMap[Dirs[i + 1]].Bytes

\* C10: right after Sort, also a second one, Dirs has one element per key of
\* DirMap, and each key is the Path of exactly one element, which is that
\* key's record.
C10_DirsIsPermutation ==
    last.op = "Sort" =>
        /\ Len(Dirs) = Cardinality(DOMAIN DirMap)
        /\ \A k \in DOMAIN DirMap :
              /\ Cardinality({ i \in 1..Len(Dirs) : DirMap[Dirs[i]].Path = k }) = 1
              /\ \A i \in 1..Len(Dirs) :
                    DirMap[Dirs[i]].Path = k => DirMap[Dirs[i]] = DirMap[k]
        /\ \A i \in 1..Len(Dirs) : Dirs[i] \in DOMAIN DirMap

\* a Sort that found Dirs filled by an earlier Sort
C10_Witness ==
    /\ last.op = "Sort" /\ Len(last.preDirs) >= 2 /\ Len(Dirs) >= 2

RootLevel(p) == IsFixedPoint(Dir(p))

\* C8 as stated: AddFile(p, S) with p the fixed point itself or a file
\* directly in it makes exactly one contribution of S, to the fixed point.
C8_RootLevelOneContribution ==
    (last.op = "AddFile" /\ RootLevel(last.path)) =>
        /\ last.iters = 1
        /\ AddedExactly({Dir(last.path)}, last.bytes)

\* C8 as amended: AddFile(p, S) with p a file directly in the fixed-point
\* directory makes exactly one contribution of S, to the fixed point; with p
\* the fixed point itself it makes none and changes nothing.
C8_RootLevelContribution ==
    (last.op = "AddFile" /\ RootLevel(last.path)) =>
        IF IsFixedPoint(last.path)
        THEN last.iters = 0 /\ DirMap = last.pre
        ELSE last.iters = 1 /\ AddedExactly({Dir(last.path)}, last.bytes)

\* AddFile of S > 0 for a file directly in a fixed point that already had a record
C8_Witness ==
    /\ last.op = "AddFile" /\ RootLevel(last.path) /\ ~IsFixedPoint(last.path)
    /\ last.bytes > 0 /\ Dir(last.path) \in DOMAIN last.pre

\* the directories above p, p itself excluded
ProperAncestors(p) == DirChain(p) \ {p}

\* the sum of the sizes of the entries of S
RECURSIVE SumSizes(_)
SumSizes(S) ==
    IF S = {} THEN 0
    ELSE LET e == CHOOSE x \in S : TRUE IN SizeOf(e) + SumSizes(S \ {e})

\* the regular files nested anywhere beneath directory d
FilesBeneath(d) == { f \in TreeFiles : d \in ProperAncestors(f) }

\* the entries, directories included, nested anywhere beneath directory d
EntriesBeneath(d) == { e \in TreeFiles \cup TreeDirs : d \in ProperAncestors(e) }

\* the paths main handed to AddFile while scanning root number i, in order
VisitedOf(i) ==
    LET mine == SelectSeq(visits, LAMBDA v : v[1] = i)
    IN  [j \in 1..Len(mine) |-> mine[j][2]]

\* C4: after the scan of a single root that met no error, the total of every
\* directory record is the sum of the sizes of the regular files nested
\* beneath that directory.
C4_OnlyRegularFilesCount ==
    (pc = "done" /\ Len(args) = 1 /\ failed = {}) =>
        \A k \in DOMAIN DirMap :
            DirMap[k].Bytes = SumSizes(FilesBeneath(Join(args[1], k)))

\* the two roots are directories, neither equal to nor inside the other
DisjointDirs(r, q) ==
    /\ IsDir(r) /\ IsDir(q) /\ r # q
    /\ r \notin ProperAncestors(q) /\ q \notin ProperAncestors(r)

\* directory r holds one regular file and nothing else
HoldsOneFile(r) == Len(Names(r)) = 1 /\ ~IsDir(Join(r, Names(r)[1]))

\* both roots contributed regular files to key k
FromBothRoots(k) == <<k, 1>> \in srcs /\ <<k, 2>> \in srcs

\* an absolute-mode scan of two disjoint directories that met no error is done
TwoDisjointRootsDone ==
    /\ pc = "done" /\ Abs /\ failed = {} /\ Len(args) = 2
    /\ DisjointDirs(args[1], args[2])

C6_WalkErrorAbandonsOnlyThatRoot ==
    /\ [][failed' # failed =>
            /\ DirMap' = DirMap /\ visits' = visits
            /\ IF argi < Len(args)
               THEN pc' = "scan" /\ argi' = argi + 1 /\ todo' = WalkList(args[argi'])
               ELSE pc' = "sort"]_vars
    /\ [](pc = "done" =>
            /\ \A i \in 1..Len(args) :
                  LET seen == VisitedOf(i)
                      all == WalkList(args[i])
                  IN  IF i \in failed
                      THEN Len(seen) < Len(all) /\ seen = SubSeq(all, 1, Len(seen))
                      ELSE seen = all
            /\ Len(Dirs) = Cardinality(DOMAIN DirMap)
            /\ \A k \in DOMAIN DirMap : \E i \in 1..Len(Dirs) : Dirs[i] = k
            /\ \A i \in 1..(Len(Dirs) - 1) :
                  DirMap[Dirs[i]].Bytes >= DirMap[Dirs[i + 1]].Bytes
            /\ out = [i \in 1..Len(Dirs) |-> <<DirMap[Dirs[i]].Bytes, Dirs[i]>>])

\* main is done after the walk of the first of two roots failed part-way and
\* the second was walked completely
C6_Witness ==
    /\ pc = "done" /\ Len(args) = 2 /\ failed = {1}
    /\ VisitedOf(1) # <<>> /\ VisitedOf(2) # <<>>
    /\ out # <<>>

\* the absolute-mode key that stands for the relative-mode key k
AbsKeyOf(k) == Join(args[1], k)

\* the absolute-mode records that stand for no relative-mode record
AbsOnly == DOMAIN other \ { AbsKeyOf(k) : k \in DOMAIN DirMap }

\* C3 as stated: after both scans of the same root (here on a file system
\* whose directory entries have size 0) the records of the two modes
\* correspond one to one, with equal totals.
C3_OneToOne ==
    (pc = "done" /\ failed = {} /\ dsize = 0) =>
        \E f \in [DOMAIN DirMap -> DOMAIN other] :
            /\ \A k1, k2 \in DOMAIN DirMap : f[k1] = f[k2] => k1 = k2
            /\ \A a \in DOMAIN other : \E k \in DOMAIN DirMap : f[k] = a
            /\ \A k \in DOMAIN DirMap : other[f[k]].Bytes = DirMap[k].Bytes

\* C3 as amended: at every point of the two scans each relative-mode record
\* has its own absolute-mode record, keyed by the root joined with its key,
\* with an equal total; the absolute mode has no other records than these and
\* one per directory above the root, and after scans without error it has
\* all of those.
C3_RelativeEmbedsInAbsolute ==
    /\ \A k \in DOMAIN DirMap :
          /\ AbsKeyOf(k) \in DOMAIN other
          /\ other[AbsKeyOf(k)].Bytes = DirMap[k].Bytes
    /\ \A k1, k2 \in DOMAIN DirMap : AbsKeyOf(k1) = AbsKeyOf(k2) => k1 = k2
    /\ AbsOnly \subseteq ProperAncestors(args[1])
    /\ (pc = "done" /\ failed = {}) => AbsOnly = ProperAncestors(args[1])

\* both scans of /a are done, with three relative-mode records
C3_Witness ==
    /\ pc = "done" /\ failed = {} /\ dsize > 0
    /\ Cardinality(DOMAIN DirMap) = 3 /\ AbsOnly # {}

\* C9: once both accumulators have received every pair, the one in the order
\* of the list and the other in an order of its own, they hold the same map.
C9_OrderIndependent ==
    (idxA = Len(files) /\ doneB = 1..Len(files)) => DirMap = other

\* three pairs of different paths and sizes, added in two different orders
C9_Witness ==
    /\ Len(files) >= 3 /\ idxA = Len(files) /\ doneB = 1..Len(files) /\ swapped
    /\ files[1].path # files[2].path /\ files[1].bytes # files[2].bytes
    /\ DOMAIN AddFile(EmptyMap, files[1].path, 1)
         \cap DOMAIN AddFile(EmptyMap, files[2].path, 1) # {}

====
